---------------------------- MODULE Spec2Model ----------------------------
(***************************************************************************)
(* A model of rip (Read In Parallel): ParallelReader.Read and ReadFixed,   *)
(* the split function ScanChunksWithBoundary as driven by bufio.Scanner,   *)
(* the chunks channel, the worker goroutines and the buffer Pool.          *)
(*                                                                         *)
(* Bytes are numbers (10 is '\n', 97 is 'a').  A byte slice is a sequence. *)
(* Buffers are identified by a number and their contents are kept in mem,  *)
(* so that a buffer shared between two owners would show in the bytes a    *)
(* callback reads.                                                         *)
(***************************************************************************)
EXTENDS Integers, Sequences, FiniteSets, Bags

\* ------------------------------------------------------------------ bounds
\* Longest input stream.
MaxLen == 3
\* Largest ChunkSize the caller configures.
MaxChunkSize == 3
\* Largest Concurrency the caller configures, and largest runtime.NumCPU().
MaxConcurrency == 2

Bytes == {97, 10}
\* The constructor's boundary "\n" and a multi-byte one, "\n\n" (which can
\* overlap itself in the input).
Boundaries == {<<10>>, <<10, 10>>}

Min(a, b) == IF a < b THEN a ELSE b

RECURSIVE SeqsUpTo(_)
SeqsUpTo(n) ==
    IF n = 0 THEN {<<>>}
    ELSE LET S == SeqsUpTo(n - 1)
         IN  S \cup {Append(s, b) : s \in {t \in S : Len(t) = n - 1}, b \in Bytes}

Inputs == SeqsUpTo(MaxLen)

\* --------------------------------------------------------------- the state
VARIABLES
    input,          \* the bytes of the stream (io.Reader), fixed by Init
    rd,             \* how many of them the source has handed out
    ChunkSize,      \* ParallelReader.ChunkSize
    ChunkBoundary,  \* ParallelReader.ChunkBoundary
    Concurrency,    \* ParallelReader.Concurrency, as set by the caller
    chunksCap,      \* cap(r.chunks): runtime.NumCPU() when the reader was built
    RequireBoundary,    \* ParallelReader.RequireBoundary (FALSE: rip.go has none)
    ChunkBoundaryStart, \* ParallelReader.ChunkBoundaryStart (<<>>: rip.go has none)
    chunks,         \* r.chunks: the chunks buffered in the channel, oldest first
    closed,         \* whether r.chunks has been closed
    pool,           \* r.pool.pool: the buffers in the pool's channel
    mem,            \* contents of every buffer (buffer id -> bytes)
    pc,             \* where the calling goroutine is
    mode,           \* "Read" or "ReadFixed" once a call has started
    scanner,        \* the bufio.Scanner of Read
    buf,            \* the buffer the caller holds (0: none)
    chunk,          \* the chunk the caller is about to send
    actualReadSize, \* ReadFixed: bytes io.ReadFull has put in buf so far
    err,            \* ReadFixed: io.ReadFull's error; the panic value after a panic
    workers,        \* the worker goroutines: the bag of their states, each
                    \* [pc |-> where it is, chunk |-> the chunk it holds]
    sent,           \* history: the bytes of each chunk sent, in stream order
    delivered       \* history: for each chunk sent, what the callbacks received

vars == <<input, rd, ChunkSize, ChunkBoundary, Concurrency, chunksCap,
          RequireBoundary, ChunkBoundaryStart, chunks,
          closed, pool, mem, pc, mode, scanner, buf, chunk, actualReadSize, err,
          workers, sent, delivered>>

config == <<input, ChunkSize, ChunkBoundary, Concurrency, chunksCap,
            RequireBoundary, ChunkBoundaryStart>>

NoBuf == 0
NoChunk == [buffer |-> NoBuf, readableSize |-> 0, seq |-> 0]

\* ------------------------------------------------------------- byte slices
Slice(s, from, to) == SubSeq(s, from + 1, to)

\* Mutant: the first occurrence is taken.
LastIndex_First(data, sep) ==
    LET hits == {i \in 0..(Len(data) - Len(sep)) : Slice(data, i, i + Len(sep)) = sep}
    IN  IF hits = {} THEN -1 ELSE CHOOSE i \in hits : \A j \in hits : i <= j

\* bytes.LastIndex(data, sep): the 0-based index of the last occurrence of sep
\* in data, -1 when there is none.
LastIndex(data, sep) ==
    LET hits == {i \in 0..(Len(data) - Len(sep)) : Slice(data, i, i + Len(sep)) = sep}
    IN  IF hits = {} THEN -1 ELSE CHOOSE i \in hits : \A j \in hits : j <= i

\* copy(dst, src): the bytes of dst after the copy and the number copied.
CopyInto(dst, src) ==
    LET n == Min(Len(dst), Len(src))
    IN  [bytes |-> Slice(src, 0, n) \o Slice(dst, n, Len(dst)), size |-> n]

\* chunk.ReadableBytes()
ReadableBytes(c) == Slice(mem[c.buffer], 0, c.readableSize)


\* ------------------------------------------------------------ the scanner
\* Mutant: the unterminated bytes at the end of the input are not returned.
ScanChunksWithBoundary_DropTail(data, atEOF) ==
    LET idx == LastIndex(data, ChunkBoundary)
        boundaryEnd == idx + Len(ChunkBoundary)
        more == [advance |-> 0, token |-> <<>>, isNil |-> TRUE, err |-> "nil"]
    IN  IF ~atEOF /\ Len(data) < ChunkSize THEN more
        ELSE IF idx > -1
             THEN [advance |-> boundaryEnd, token |-> Slice(data, 0, boundaryEnd),
                   isNil |-> FALSE, err |-> "nil"]
        ELSE IF ~atEOF THEN more
        ELSE [advance |-> 0, token |-> <<>>, isNil |-> FALSE, err |-> "ErrFinalToken"]

\* Mutant: the boundary is taken to be one byte long.
ScanChunksWithBoundary_OneByte(data, atEOF) ==
    LET idx == LastIndex(data, ChunkBoundary)
        boundaryEnd == idx + 1
        more == [advance |-> 0, token |-> <<>>, isNil |-> TRUE, err |-> "nil"]
    IN  IF ~atEOF /\ Len(data) < ChunkSize THEN more
        ELSE IF idx > -1
             THEN [advance |-> boundaryEnd, token |-> Slice(data, 0, boundaryEnd),
                   isNil |-> FALSE, err |-> "nil"]
        ELSE IF ~atEOF THEN more
        ELSE [advance |-> 0, token |-> data, isNil |-> FALSE, err |-> "ErrFinalToken"]

\* Mutant: a window of ChunkSize bytes that holds no boundary is cut there.
ScanChunksWithBoundary_Cut(data, atEOF) ==
    LET idx == LastIndex(data, ChunkBoundary)
        boundaryEnd == idx + Len(ChunkBoundary)
        more == [advance |-> 0, token |-> <<>>, isNil |-> TRUE, err |-> "nil"]
    IN  IF ~atEOF /\ Len(data) < ChunkSize THEN more
        ELSE IF idx > -1
             THEN [advance |-> boundaryEnd, token |-> Slice(data, 0, boundaryEnd),
                   isNil |-> FALSE, err |-> "nil"]
        ELSE IF ~atEOF
             THEN [advance |-> Len(data), token |-> data, isNil |-> FALSE, err |-> "nil"]
        ELSE [advance |-> 0, token |-> data, isNil |-> FALSE, err |-> "ErrFinalToken"]

\* ParallelReader.ScanChunksWithBoundary, the bufio.SplitFunc of Read.
\* isNil tells a nil token from an empty one.
ScanChunksWithBoundary(data, atEOF) ==
    LET idx == LastIndex(data, ChunkBoundary)
        boundaryEnd == idx + Len(ChunkBoundary)
        more == [advance |-> 0, token |-> <<>>, isNil |-> TRUE, err |-> "nil"]
    IN  IF ~atEOF /\ Len(data) < ChunkSize THEN more
        ELSE IF idx > -1
             THEN [advance |-> boundaryEnd, token |-> Slice(data, 0, boundaryEnd),
                   isNil |-> FALSE, err |-> "nil"]
        ELSE IF ~atEOF THEN more
        ELSE [advance |-> 0, token |-> data, isNil |-> FALSE, err |-> "ErrFinalToken"]

\* bytes.Index(data, sep): the 0-based index of the first occurrence of sep in
\* data, -1 when there is none.
Index(data, sep) ==
    LET at == {i \in 0..(Len(data) - Len(sep)) : Slice(data, i, i + Len(sep)) = sep}
    IN  IF at = {} THEN -1 ELSE CHOOSE i \in at : \A j \in at : i <= j

\* Mutant: with RequireBoundary the unterminated rest is still returned.
ScanRequireBoundary_KeepTail(data, atEOF) == ScanChunksWithBoundary(data, atEOF)

\* The split function with RequireBoundary set, after section 4.2 of the
\* specification: as ScanChunksWithBoundary, but what is left at the end of
\* the input without a boundary is discarded.
ScanRequireBoundary(data, atEOF) ==
    LET idx == LastIndex(data, ChunkBoundary)
        boundaryEnd == idx + Len(ChunkBoundary)
        more == [advance |-> 0, token |-> <<>>, isNil |-> TRUE, err |-> "nil"]
    IN  IF ~atEOF /\ Len(data) < ChunkSize THEN more
        ELSE IF idx > -1
             THEN [advance |-> boundaryEnd, token |-> Slice(data, 0, boundaryEnd),
                   isNil |-> FALSE, err |-> "nil"]
        ELSE more

\* Mutant: the bytes before the start sequence stay in the chunk.
ScanBracketed_FromWindowStart(data, atEOF) ==
    LET first == Index(data, ChunkBoundaryStart)
        idx == LastIndex(data, ChunkBoundary)
        boundaryEnd == idx + Len(ChunkBoundary)
        more == [advance |-> 0, token |-> <<>>, isNil |-> TRUE, err |-> "nil"]
    IN  IF ~atEOF /\ Len(data) < ChunkSize THEN more
        ELSE IF first > -1 /\ idx >= first + Len(ChunkBoundaryStart)
             THEN [advance |-> boundaryEnd, token |-> Slice(data, 0, boundaryEnd),
                   isNil |-> FALSE, err |-> "nil"]
        ELSE more

\* The split function with ChunkBoundaryStart set, after section 4.2 of the
\* specification: the chunk goes from the first start sequence of the window
\* to the end of the last end sequence after it; the bytes before it are
\* consumed with it and not returned; without such a span more data is asked
\* for, and at the end of the input the rest is discarded.
ScanBracketed(data, atEOF) ==
    LET first == Index(data, ChunkBoundaryStart)
        idx == LastIndex(data, ChunkBoundary)
        boundaryEnd == idx + Len(ChunkBoundary)
        more == [advance |-> 0, token |-> <<>>, isNil |-> TRUE, err |-> "nil"]
    IN  IF ~atEOF /\ Len(data) < ChunkSize THEN more
        ELSE IF first > -1 /\ idx >= first + Len(ChunkBoundaryStart)
             THEN [advance |-> boundaryEnd, token |-> Slice(data, first, boundaryEnd),
                   isNil |-> FALSE, err |-> "nil"]
        ELSE more

\* The split function scanner.Split is given.
Split(data, atEOF) ==
    IF ChunkBoundaryStart # <<>> THEN ScanBracketed(data, atEOF)
    ELSE IF RequireBoundary THEN ScanRequireBoundary(data, atEOF)
    ELSE ScanChunksWithBoundary(data, atEOF)

\* scanner.Buffer(scanBuf, r.ChunkSize): the scanner's initial buffer is
\* ChunkSize long and no token may be longer than maxTokenSize = ChunkSize.
InitialBufLen == ChunkSize
\* Mutant: tokens of up to twice ChunkSize are allowed.
MaxTokenSize_Double == 2 * ChunkSize
MaxTokenSize == ChunkSize

NewScanner ==
    [start |-> 0, end |-> 0, bufLen |-> InitialBufLen, err |-> "nil",
     done |-> FALSE, token |-> <<>>]

\* The scanner's window s.buf[s.start:s.end]: the last end-start bytes read.
Window(s) == Slice(input, rd - (s.end - s.start), rd)

\* Mutant: the scanner's error is not looked at.
ScannerErr_Ignored(s) == "nil"

\* scanner.Err(): io.EOF is not an error.
ScannerErr(s) == IF s.err = "EOF" THEN "nil" ELSE s.err

\* One round of the loop of bufio.Scanner.Scan up to its read of the source:
\* [s |-> the scanner, next |-> "token" (Scan returns true), "stop" (Scan
\* returns false) or "read" (the source must be read)].
ScanRound(s) ==
    LET try == (s.end > s.start) \/ (s.err # "nil")
        r == Split(Window(s), s.err # "nil")
        adv == IF try /\ r.err = "nil" THEN [s EXCEPT !.start = s.start + r.advance] ELSE s
        \* shift the data to the beginning of the buffer
        shift == adv.start > 0 /\ (adv.end = adv.bufLen \/ adv.start > adv.bufLen \div 2)
        sh == IF shift THEN [adv EXCEPT !.end = adv.end - adv.start, !.start = 0] ELSE adv
        newSize == Min(2 * sh.bufLen, MaxTokenSize)
    IN  IF s.done THEN [s |-> s, next |-> "stop"]
        ELSE IF try /\ r.err = "ErrFinalToken"
             THEN [s |-> [s EXCEPT !.token = r.token, !.done = TRUE], next |-> "token"]
        ELSE IF try /\ ~r.isNil
             THEN [s |-> [adv EXCEPT !.token = r.token], next |-> "token"]
        ELSE IF adv.err # "nil"
             THEN [s |-> [adv EXCEPT !.start = 0, !.end = 0, !.token = <<>>], next |-> "stop"]
        ELSE IF sh.end = sh.bufLen /\ sh.bufLen >= MaxTokenSize
             THEN [s |-> [sh EXCEPT !.err = "ErrTooLong", !.token = <<>>], next |-> "stop"]
        ELSE IF sh.end = sh.bufLen
             THEN [s |-> [sh EXCEPT !.bufLen = newSize, !.end = sh.end - sh.start,
                                    !.start = 0, !.token = <<>>],
                   next |-> "read"]
        ELSE [s |-> [sh EXCEPT !.token = <<>>], next |-> "read"]

\* ------------------------------------------------------------- the source
\* What one Read of the stream may return when asked for up to room bytes:
\* some bytes, the last bytes together with io.EOF, io.EOF alone once the
\* stream is exhausted, or a fault.
SourceReads(room) ==
    LET left == Len(input) - rd
    IN  {[n |-> k, err |-> "nil"] : k \in 1..Min(room, left)}
        \cup (IF left > 0 /\ left <= room THEN {[n |-> left, err |-> "EOF"]} ELSE {})
        \cup (IF left = 0 THEN {[n |-> 0, err |-> "EOF"]} ELSE {})
        \cup {[n |-> 0, err |-> "fault"]}

\* ------------------------------------------------------------ the buffers
BufIds == 1..(3 * MaxConcurrency + 2)

\* The buffers some goroutine or channel still refers to.
Referenced(pl, q, b, c, ws) ==
    ({pl[i] : i \in 1..Len(pl)} \cup {q[i].buffer : i \in 1..Len(q)}
     \cup {b, c.buffer} \cup {w.chunk.buffer : w \in BagToSet(ws)}) \ {NoBuf}

Live == Referenced(pool, chunks, buf, chunk, workers)

Zeros(n) == [i \in 1..n |-> 0]

\* Garbage collection: a buffer nothing refers to is gone.
Collect(m, live) == [b \in BufIds |-> IF b \in live THEN m[b] ELSE <<>>]

\* NewPool(r.Concurrency, r.ChunkSize)
PoolMax == Concurrency
BufferSize == ChunkSize

\* Mutant: a pooled buffer is handed out and left in the pool.
Borrow_Peek ==
    IF Len(pool) > 0
    THEN [c |-> Head(pool), pool |-> pool, mem |-> mem]
    ELSE LET c == CHOOSE b \in BufIds \ Live : \A o \in BufIds \ Live : b <= o
         IN  [c |-> c, pool |-> pool, mem |-> [mem EXCEPT ![c] = Zeros(BufferSize)]]

\* Pool.Borrow: a pooled buffer when there is one, else a new one.
Borrow ==
    IF Len(pool) > 0
    THEN [c |-> Head(pool), pool |-> Tail(pool), mem |-> mem]
    ELSE LET c == CHOOSE b \in BufIds \ Live : \A o \in BufIds \ Live : b <= o
         IN  [c |-> c, pool |-> pool, mem |-> [mem EXCEPT ![c] = Zeros(BufferSize)]]

\* Mutant: the pool takes every buffer offered back.
Return_Always(c) == Append(pool, c)

\* Pool.Return: the pool with c offered back; dropped when the pool is full.
Return(c) == IF Len(pool) < PoolMax THEN Append(pool, c) ELSE pool


\* ------------------------------------------------------------ the channel
\* r.chunks <- c is possible while the channel has room; a receive takes the
\* oldest chunk; range r.chunks ends once the channel is closed and empty.
CanSend == Len(chunks) < chunksCap
CanReceive == Len(chunks) > 0
\* Mutant: the range ends as soon as the channel is empty.
RangeEnds_Empty == Len(chunks) = 0
\* Mutant: the range ends as soon as the channel is closed.
RangeEnds_Closed == closed
RangeEnds == closed /\ Len(chunks) = 0

\* --------------------------------------------------------------- the calls
\* NewParallelReader on a machine with chunksCap cores, then the caller's
\* configuration: the state before Read or ReadFixed is called.
Init ==
    /\ input \in Inputs
    /\ ChunkSize \in 1..MaxChunkSize
    /\ ChunkBoundary \in Boundaries
    /\ Concurrency \in 1..MaxConcurrency
    /\ chunksCap \in 1..MaxConcurrency
    /\ RequireBoundary = FALSE
    /\ ChunkBoundaryStart = <<>>
    /\ rd = 0
    /\ chunks = <<>>
    /\ closed = FALSE
    /\ pool = <<>>
    /\ mem = [b \in BufIds |-> <<>>]
    /\ pc = "idle"
    /\ mode = "none"
    /\ scanner = NewScanner
    /\ buf = NoBuf
    /\ chunk = NoChunk
    /\ actualReadSize = 0
    /\ err = "nil"
    /\ workers = EmptyBag
    /\ sent = <<>>
    /\ delivered = <<>>

\* r.startWorkers(work): Concurrency goroutines, each about to range over
\* r.chunks.
startWorkers == [w \in {[pc |-> "recv", chunk |-> NoChunk]} |-> Concurrency]

\* Read up to its scan loop: the pool, the scanner, the workers.
Read ==
    /\ pc = "idle"
    /\ mode' = "Read"
    /\ pool' = <<>>
    /\ scanner' = NewScanner
    /\ workers' = startWorkers
    /\ pc' = "scan"
    /\ UNCHANGED <<config, rd, chunks, closed, mem, buf, chunk, actualReadSize, err,
                   sent, delivered>>

\* One round of scanner.Scan(): it returns with a token, returns false, or
\* reads the stream into s.buf[s.end:len(s.buf)] (setErr on an error) and
\* goes round again.
Scan ==
    /\ pc = "scan"
    /\ LET r == ScanRound(scanner)
       IN  IF r.next = "read"
           THEN \E got \in SourceReads(r.s.bufLen - r.s.end) :
                   /\ rd' = rd + got.n
                   /\ scanner' = [r.s EXCEPT !.end = r.s.end + got.n, !.err = got.err]
                   /\ pc' = "scan"
           ELSE /\ scanner' = r.s
                /\ pc' = IF r.next = "token" THEN "token" ELSE "scanned"
                /\ UNCHANGED rd
    /\ UNCHANGED <<config, chunks, closed, pool, mem, mode, buf, chunk,
                   actualReadSize, err, workers, sent, delivered>>

\* The body of Read's loop: borrow a buffer and, for a token that is not
\* empty, copy the token into it and make the chunk.
ReadToken ==
    /\ pc = "token"
    /\ LET token == scanner.token
           b == Borrow
           cp == CopyInto(b.mem[b.c], token)
       IN  IF Len(token) > 0
           THEN /\ buf' = b.c
                /\ pool' = b.pool
                /\ mem' = [b.mem EXCEPT ![b.c] = cp.bytes]
                /\ chunk' = [buffer |-> b.c, readableSize |-> cp.size, seq |-> Len(sent) + 1]
                /\ pc' = "send"
           ELSE \* the borrowed buffer is dropped
                /\ buf' = NoBuf
                /\ pool' = b.pool
                /\ mem' = Collect(b.mem, Referenced(b.pool, chunks, NoBuf, NoChunk, workers))
                /\ chunk' = NoChunk
                /\ pc' = "scan"
    /\ UNCHANGED <<config, rd, chunks, closed, mode, scanner, actualReadSize, err,
                   workers, sent, delivered>>

\* r.chunks <- &chunk, in Read and in ReadFixed.
Send ==
    /\ pc \in {"send", "rf_send"}
    /\ ~closed
    /\ CanSend
    /\ chunks' = Append(chunks, chunk)
    /\ sent' = Append(sent, ReadableBytes(chunk))
    /\ delivered' = Append(delivered, <<>>)
    /\ buf' = NoBuf
    /\ chunk' = NoChunk
    /\ pc' = IF pc = "send" THEN "scan"
             ELSE IF err = "nil" THEN "rf_borrow" ELSE "rf_close"
    /\ UNCHANGED <<config, rd, closed, pool, mem, mode, scanner, actualReadSize, err,
                   workers>>

\* After the scan loop: panic on the scanner's error, else close(r.chunks),
\* which panics when the channel is closed already.
ReadClose ==
    /\ pc = "scanned"
    /\ IF ScannerErr(scanner) # "nil"
       THEN /\ err' = ScannerErr(scanner)
            /\ pc' = "panic"
            /\ UNCHANGED closed
       ELSE IF closed
       THEN /\ err' = "close of closed channel"
            /\ pc' = "panic"
            /\ UNCHANGED closed
       ELSE /\ closed' = TRUE
            /\ pc' = "wait"
            /\ UNCHANGED err
    /\ UNCHANGED <<config, rd, chunks, pool, mem, mode, scanner, buf, chunk,
                   actualReadSize, workers, sent, delivered>>

\* Mutant: the wait ends as soon as one worker is done.
AllJoined_Any == \E w \in BagToSet(workers) : w.pc = "done"

\* The WaitGroup's counter, Concurrency less one per wg.Done(), is zero.
AllJoined == \A w \in BagToSet(workers) : w.pc = "done"

\* wg.Wait() and the return of Read or ReadFixed.
Wait ==
    /\ pc = "wait"
    /\ AllJoined
    /\ pc' = "returned"
    /\ UNCHANGED <<config, rd, chunks, closed, pool, mem, mode, scanner, buf, chunk,
                   actualReadSize, err, workers, sent, delivered>>


\* ReadFixed up to its loop: the pool and the workers.
ReadFixed ==
    /\ pc = "idle"
    /\ mode' = "ReadFixed"
    /\ pool' = <<>>
    /\ workers' = startWorkers
    /\ pc' = "rf_borrow"
    /\ UNCHANGED <<config, rd, chunks, closed, mem, scanner, buf, chunk, actualReadSize,
                   err, sent, delivered>>

\* buf := r.pool.Borrow() at the top of ReadFixed's loop.
FixedBorrow ==
    /\ pc = "rf_borrow"
    /\ LET b == Borrow
       IN  /\ buf' = b.c
           /\ pool' = b.pool
           /\ mem' = b.mem
    /\ actualReadSize' = 0
    /\ err' = "nil"
    /\ pc' = "rf_read"
    /\ UNCHANGED <<config, rd, chunks, closed, mode, scanner, chunk, workers,
                   sent, delivered>>

\* Mutant: a short read at the end of the stream is reported as io.EOF.
ReadFullErr_ShortIsEOF(n, size, e) ==
    IF n >= size THEN "nil"
    ELSE IF e = "nil" THEN "more"
    ELSE e

\* io.ReadFull's error once the source returned e with n bytes in a buffer of
\* length size: nil for a full buffer, io.ErrUnexpectedEOF for a short one
\* at the end of the stream, io.EOF for none; "more" while it must read on.
ReadFullErr(n, size, e) ==
    IF n >= size THEN "nil"
    ELSE IF e = "nil" THEN "more"
    ELSE IF e = "EOF" /\ n > 0 THEN "ErrUnexpectedEOF"
    ELSE e

\* One read of io.ReadFull(stream, buf) and, when ReadFull is over, the
\* branch ReadFixed takes on its error.
FixedRead ==
    /\ pc = "rf_read"
    /\ \E got \in SourceReads(Len(mem[buf]) - actualReadSize) :
          LET n == actualReadSize + got.n
              e == ReadFullErr(n, Len(mem[buf]), got.err)
              bytes == Slice(mem[buf], 0, actualReadSize) \o Slice(input, rd, rd + got.n)
                       \o Slice(mem[buf], n, Len(mem[buf]))
          IN  /\ rd' = rd + got.n
              /\ mem' = [mem EXCEPT ![buf] = bytes]
              /\ actualReadSize' = n
              /\ err' = IF e = "more" THEN "nil" ELSE e
              /\ chunk' = IF e = "more" THEN NoChunk
                          ELSE [buffer |-> buf, readableSize |-> n, seq |-> Len(sent) + 1]
              /\ pc' = CASE e = "more" -> "rf_read"
                         [] e \in {"nil", "ErrUnexpectedEOF"} -> "rf_send"
                         [] e = "EOF" -> "rf_close"
                         [] OTHER -> "panic"
    /\ UNCHANGED <<config, chunks, closed, pool, mode, scanner, buf, workers,
                   sent, delivered>>

\* close(r.chunks) and break, at the end of the stream in ReadFixed; the
\* close panics when the channel is closed already.
FixedClose ==
    /\ pc = "rf_close"
    /\ IF closed
       THEN /\ err' = "close of closed channel"
            /\ pc' = "panic"
            /\ UNCHANGED <<closed, buf, chunk, mem>>
       ELSE /\ closed' = TRUE
            /\ buf' = NoBuf
            /\ chunk' = NoChunk
            /\ mem' = Collect(mem, Referenced(pool, chunks, NoBuf, NoChunk, workers))
            /\ pc' = "wait"
            /\ UNCHANGED err
    /\ UNCHANGED <<config, rd, chunks, pool, mode, scanner, actualReadSize,
                   workers, sent, delivered>>

\* ------------------------------------------------------------- the workers
\* The worker goroutines are anonymous: w is the state of one of them and
\* Step(w, to) is the bag with that worker now in state to.
Running == pc \notin {"idle", "panic", "returned"}
Step(w, to) == (workers (-) SetToBag({w})) (+) SetToBag({to})

\* Mutant: the chunk received stays in the channel.
WorkerReceive_Peek(w) ==
    /\ pc \notin {"idle", "panic", "returned"}
    /\ w.pc = "recv"
    /\ Len(chunks) > 0
    /\ workers' = (workers (-) SetToBag({w})) (+) SetToBag({[pc |-> "work", chunk |-> Head(chunks)]})
    /\ UNCHANGED <<config, rd, chunks, closed, pool, mem, pc, mode, scanner, buf, chunk,
                   actualReadSize, err, sent, delivered>>

\* Mutant: the newest chunk of the channel is received.
WorkerReceive_Newest(w) ==
    /\ Running
    /\ w.pc = "recv"
    /\ CanReceive
    /\ workers' = Step(w, [pc |-> "work", chunk |-> chunks[Len(chunks)]])
    /\ chunks' = SubSeq(chunks, 1, Len(chunks) - 1)
    /\ UNCHANGED <<config, rd, closed, pool, mem, pc, mode, scanner, buf, chunk,
                   actualReadSize, err, sent, delivered>>

\* for chunk := range r.chunks: a worker receives the oldest chunk and calls
\* fn on its readable bytes.
WorkerReceive(w) ==
    /\ Running
    /\ w.pc = "recv"
    /\ CanReceive
    /\ workers' = Step(w, [pc |-> "work", chunk |-> Head(chunks)])
    /\ chunks' = Tail(chunks)
    /\ UNCHANGED <<config, rd, closed, pool, mem, pc, mode, scanner, buf, chunk,
                   actualReadSize, err, sent, delivered>>

\* fn(chunk.ReadableBytes()) returns: the callback has read the bytes.
WorkerCallback(w) ==
    /\ Running
    /\ w.pc = "work"
    /\ delivered' = [delivered EXCEPT ![w.chunk.seq] = Append(@, ReadableBytes(w.chunk))]
    /\ workers' = Step(w, [w EXCEPT !.pc = "return"])
    /\ UNCHANGED <<config, rd, chunks, closed, pool, mem, pc, mode, scanner, buf, chunk,
                   actualReadSize, err, sent>>

\* r.pool.Return(chunk.buffer), then back to the range.
WorkerReturn(w) ==
    /\ Running
    /\ w.pc = "return"
    /\ LET p == Return(w.chunk.buffer)
           ws == Step(w, [pc |-> "recv", chunk |-> NoChunk])
       IN  /\ pool' = p
           /\ workers' = ws
           /\ mem' = Collect(mem, Referenced(p, chunks, buf, chunk, ws))
    /\ UNCHANGED <<config, rd, chunks, closed, pc, mode, scanner, buf, chunk,
                   actualReadSize, err, sent, delivered>>

\* The range ends (the channel is closed and empty): wg.Done().
WorkerExit(w) ==
    /\ Running
    /\ w.pc = "recv"
    /\ RangeEnds
    /\ workers' = Step(w, [w EXCEPT !.pc = "done"])
    /\ UNCHANGED <<config, rd, chunks, closed, pool, mem, pc, mode, scanner, buf, chunk,
                   actualReadSize, err, sent, delivered>>

Next ==
    \/ Read
    \/ Scan
    \/ ReadToken
    \/ Send
    \/ ReadClose
    \/ Wait
    \/ ReadFixed
    \/ FixedBorrow
    \/ FixedRead
    \/ FixedClose
    \/ \E w \in BagToSet(workers) : WorkerReceive(w)
    \/ \E w \in BagToSet(workers) : WorkerCallback(w)
    \/ \E w \in BagToSet(workers) : WorkerReturn(w)
    \/ \E w \in BagToSet(workers) : WorkerExit(w)

Spec == Init /\ [][Next]_vars

\* ------------------------------------------------ a source without fault
\* The source answers every read with bytes or io.EOF.
NoSourceFault == scanner'.err # "fault" /\ err' # "fault"

ScanNoFault == Scan /\ NoSourceFault
FixedReadNoFault == FixedRead /\ NoSourceFault

\* The steps of the calling goroutine and those of the worker goroutines.
Caller ==
    \/ Read
    \/ ScanNoFault
    \/ ReadToken
    \/ Send
    \/ ReadClose
    \/ Wait
    \/ ReadFixed
    \/ FixedBorrow
    \/ FixedReadNoFault
    \/ FixedClose

Worker ==
    \/ \E w \in BagToSet(workers) : WorkerReceive(w)
    \/ \E w \in BagToSet(workers) : WorkerCallback(w)
    \/ \E w \in BagToSet(workers) : WorkerReturn(w)
    \/ \E w \in BagToSet(workers) : WorkerExit(w)

NextNoFault == Caller \/ Worker

\* The scheduler lets every goroutine that can run go on: the caller starts
\* its call and goes on whenever it is not blocked, the source answers, and a
\* worker that can step does so (every callback returns).
FairSpec ==
    /\ Init
    /\ [][NextNoFault]_vars
    /\ WF_vars(Caller)
    /\ WF_vars(Worker)

\* ------------------------------- Read with RequireBoundary and a start
Starts == {<<>>, <<97>>}

\* Long enough for a byte before a span of start and boundary and one after.
MaxSpanInput == MaxLen + 1

\* A reader whose caller has set RequireBoundary or ChunkBoundaryStart; its
\* channel is as long as it has workers.
InitBoundary ==
    /\ input \in SeqsUpTo(MaxSpanInput)
    /\ ChunkSize \in 1..MaxChunkSize
    /\ ChunkBoundary \in Boundaries
    /\ Concurrency \in 1..MaxConcurrency
    /\ chunksCap = Concurrency
    /\ RequireBoundary \in BOOLEAN
    /\ ChunkBoundaryStart \in Starts
    /\ rd = 0
    /\ chunks = <<>>
    /\ closed = FALSE
    /\ pool = <<>>
    /\ mem = [b \in BufIds |-> <<>>]
    /\ pc = "idle"
    /\ mode = "none"
    /\ scanner = NewScanner
    /\ buf = NoBuf
    /\ chunk = NoChunk
    /\ actualReadSize = 0
    /\ err = "nil"
    /\ workers = EmptyBag
    /\ sent = <<>>
    /\ delivered = <<>>

NextBoundary ==
    \/ Read
    \/ Scan
    \/ ReadToken
    \/ Send
    \/ ReadClose
    \/ Wait
    \/ \E w \in BagToSet(workers) : WorkerReceive(w)
    \/ \E w \in BagToSet(workers) : WorkerCallback(w)
    \/ \E w \in BagToSet(workers) : WorkerReturn(w)
    \/ \E w \in BagToSet(workers) : WorkerExit(w)

SpecBoundary == InitBoundary /\ [][NextBoundary]_vars

\* ------------------------------------------- a further call on the reader
\* r.chunks <- &chunk on the channel an earlier call closed: the send panics.
SendClosed ==
    /\ pc \in {"send", "rf_send"}
    /\ closed
    /\ err' = "send on closed channel"
    /\ pc' = "panic"
    /\ UNCHANGED <<config, rd, chunks, closed, pool, mem, mode, scanner, buf, chunk,
                   actualReadSize, workers, sent, delivered>>

\* The call has returned and the caller is about to call Read or ReadFixed
\* again on the same ParallelReader, with a new stream of the same bytes. The
\* worker goroutines of the call that returned are gone and its pool is about
\* to be replaced; r.chunks is the channel NewParallelReader made.
CallAgain ==
    /\ pc = "returned"
    /\ pc' = "idle"
    /\ mode' = "none"
    /\ rd' = 0
    /\ scanner' = NewScanner
    /\ actualReadSize' = 0
    /\ err' = "nil"
    /\ workers' = EmptyBag
    /\ pool' = <<>>
    /\ mem' = [b \in BufIds |-> <<>>]
    /\ sent' = <<>>
    /\ delivered' = <<>>
    /\ UNCHANGED <<config, chunks, closed, buf, chunk>>

NextReuse ==
    \/ Next
    \/ SendClosed
    \/ CallAgain

SpecReuse == Init /\ [][NextReuse]_vars


\* ------------------------------------------------------ what the claims use
RECURSIVE Concat(_)
Concat(ss) == IF Len(ss) = 0 THEN <<>> ELSE Head(ss) \o Concat(Tail(ss))

EndsWith(s, suffix) ==
    Len(s) >= Len(suffix) /\ Slice(s, Len(s) - Len(suffix), Len(s)) = suffix

Returned == pc = "returned"
Panicked == pc = "panic"

\* What the callback received for each chunk, in stream order (defined once
\* the callback has run once for each).
Received == [k \in 1..Len(delivered) |-> delivered[k][1]]
AllReceivedOnce == \A k \in 1..Len(delivered) : Len(delivered[k]) = 1

\* The lines of the input: a line ends with its '\n'; the tail is what
\* follows the last '\n'.
NewLine == <<10>>
LineEnds == {i \in 1..Len(input) : input[i] = 10}
LineStart(e) == IF \E j \in LineEnds : j < e
                THEN (CHOOSE j \in LineEnds : j < e /\ \A o \in LineEnds : o < e => o <= j)
                ELSE 0
TailLen == Len(input) - LineStart(Len(input) + 1)
LinesFit == (\A e \in LineEnds : e - LineStart(e) <= ChunkSize) /\ TailLen < ChunkSize
LineTooLong == \E e \in LineEnds : e - LineStart(e) > ChunkSize

InC1 == mode = "Read" /\ ChunkBoundary = NewLine /\ ChunkSize < Len(input)

\* C1 as stated: for Read with the boundary "\n" and ChunkSize smaller than
\* the input, the call never faults on its own (it panics only on a fault of
\* the source) and, once it has returned, the chunks the callback received,
\* concatenated in stream order, are the input.
C1_AnyInput ==
    InC1 => /\ Panicked => err = "fault"
            /\ Returned => AllReceivedOnce /\ Concat(Received) = input

\* C1 amended: for Read with the boundary "\n" and ChunkSize smaller than the
\* input, a call that returns has passed to the callback chunks that,
\* concatenated in stream order, are the input, unterminated tail included;
\* the call panics only on a fault of the source when every line with its
\* "\n" is at most ChunkSize bytes and the tail is shorter than ChunkSize;
\* and it never returns when a line with its "\n" is longer than ChunkSize.
C1_ChunksConcatToInput ==
    InC1 => /\ Returned => AllReceivedOnce /\ Concat(Received) = input
            /\ (LinesFit /\ Panicked) => err = "fault"
            /\ LineTooLong => ~Returned

\* A Read that returned two or more chunks, the last one unterminated.
C1_Witness ==
    /\ InC1 /\ Returned /\ LinesFit
    /\ Len(sent) >= 2
    /\ ~EndsWith(Received[Len(sent)], NewLine)

\* C2: every chunk Read sends, and every one its callback receives, ends with
\* the whole ChunkBoundary, except for the chunk the scanner made at the end
\* of the input, which is the last chunk of the stream.
C2_ChunksEndWithBoundary ==
    mode = "Read" =>
        \A k \in 1..Len(sent) :
            /\ EndsWith(sent[k], ChunkBoundary) \/ (k = Len(sent) /\ scanner.done)
            /\ \A i \in 1..Len(delivered[k]) :
                  EndsWith(delivered[k][i], ChunkBoundary) \/ (k = Len(sent) /\ scanner.done)

\* A two-byte boundary: the callbacks received a chunk that ends with it and
\* then a last one that does not.
C2_Witness ==
    /\ mode = "Read" /\ Len(ChunkBoundary) = 2
    /\ Len(sent) = 2 /\ AllReceivedOnce
    /\ EndsWith(Received[1], ChunkBoundary)
    /\ ~EndsWith(Received[2], ChunkBoundary)

\* The chunks that exist: the caller's, the queued ones, the workers'.
InFlight ==
    ({chunk} \cup {chunks[i] : i \in 1..Len(chunks)}
     \cup {w.chunk : w \in BagToSet(workers)}) \ {NoChunk}

\* C3: in Read and ReadFixed every chunk is at most ChunkSize bytes long, its
\* readableSize is at most the length of its buffer, and the copy of a token
\* into the borrowed buffer copies the whole token.
C3_ChunkFitsBuffer ==
    /\ \A c \in InFlight : c.readableSize <= Len(mem[c.buffer]) /\ c.readableSize <= ChunkSize
    /\ \A k \in 1..Len(sent) :
          /\ Len(sent[k]) <= ChunkSize
          /\ \A i \in 1..Len(delivered[k]) : Len(delivered[k][i]) <= ChunkSize
    /\ pc = "send" => chunk.readableSize = Len(scanner.token)
                      /\ ReadableBytes(chunk) = scanner.token

\* A callback of Read received a chunk of exactly ChunkSize bytes.
C3_Witness ==
    /\ mode = "Read" /\ ChunkSize >= 2
    /\ \E k \in 1..Len(sent) : Len(delivered[k]) = 1 /\ Len(delivered[k][1]) = ChunkSize

\* The scanner's window holds ChunkSize bytes and no boundary, the scanner has
\* seen no end of input, and the source has more bytes to give.
RecordLongerThanChunkSize ==
    /\ mode = "Read" /\ pc = "scan" /\ ~scanner.done
    /\ scanner.err = "nil"
    /\ Len(Window(scanner)) >= ChunkSize
    /\ LastIndex(Window(scanner), ChunkBoundary) = -1
    /\ rd < Len(input)

\* A step of the calling goroutine (the workers change neither).
CallerSteps == pc' # pc \/ scanner' # scanner

\* C4 as stated: with a record longer than ChunkSize in the window, the
\* scanner asks for more data and the call does not fail.
C4_GrowsBeyondChunkSize ==
    [][(RecordLongerThanChunkSize /\ CallerSteps)
          => (pc' = "scan" /\ scanner'.err # "ErrTooLong")]_vars

\* C4 amended: with a record longer than ChunkSize in the window, the
\* scanner's request for more data fails with bufio.ErrTooLong, Scan returns
\* false and Read panics with that error; the record is not delivered, and
\* the chunks sent are the input before it.
C4_TooLongPanics ==
    /\ [][(RecordLongerThanChunkSize /\ CallerSteps)
             => (pc' = "scanned" /\ scanner'.err = "ErrTooLong")]_vars
    /\ [][(pc = "scanned" /\ scanner.err = "ErrTooLong" /\ CallerSteps)
             => (pc' = "panic" /\ err' = "ErrTooLong")]_vars
    /\ []((mode = "Read" /\ Panicked /\ err = "ErrTooLong")
             => Len(Concat(sent)) = rd - ChunkSize)

\* Read panicked with ErrTooLong after it had sent a chunk, with input left.
C4_Witness ==
    /\ mode = "Read" /\ Panicked /\ err = "ErrTooLong"
    /\ Len(sent) >= 1 /\ rd < Len(input)

\* The offset in the stream at which chunk k ends.
SentBefore(k) == Len(Concat(SubSeq(sent, 1, k)))

\* C5 as stated: no chunk Read sends contains the boundary anywhere but at
\* its end.
C5_BoundaryOnlyAtEnd ==
    mode = "Read" =>
        \A k \in 1..Len(sent) :
            \A i \in 0..(Len(sent[k]) - Len(ChunkBoundary)) :
                Slice(sent[k], i, i + Len(ChunkBoundary)) = ChunkBoundary
                    => i = Len(sent[k]) - Len(ChunkBoundary)

\* C5 amended: a chunk may hold several records, each with its boundary; what
\* holds is that no record is split: every chunk is the slice of the input
\* that follows the chunk before it, and it either ends with the boundary or
\* is the chunk made at the end of the input, which holds no boundary.
C5_NoRecordSplit ==
    mode = "Read" =>
        \A k \in 1..Len(sent) :
            /\ sent[k] = Slice(input, SentBefore(k - 1), SentBefore(k))
            /\ \/ EndsWith(sent[k], ChunkBoundary)
               \/ /\ k = Len(sent) /\ scanner.done
                  /\ LastIndex(sent[k], ChunkBoundary) = -1
                  /\ SentBefore(k) = rd

\* Read sent a chunk that holds two records.
C5_Witness ==
    /\ mode = "Read" /\ ChunkBoundary = NewLine
    /\ \E k \in 1..Len(sent) :
          /\ EndsWith(sent[k], ChunkBoundary)
          /\ LastIndex(Slice(sent[k], 0, Len(sent[k]) - 1), ChunkBoundary) > -1


\* The workers in one of the places pcs that hold chunk number k, and those
\* that hold buffer b.
WorkersAt(k, pcs) ==
    BagCardinality([w \in {v \in BagToSet(workers) : v.chunk.seq = k /\ v.pc \in pcs}
                       |-> workers[w]])
WorkersWith(b) ==
    BagCardinality([w \in {v \in BagToSet(workers) : v.chunk.buffer = b} |-> workers[w]])
InQueue(k) == Cardinality({i \in 1..Len(chunks) : chunks[i].seq = k})

\* C6: when Read or ReadFixed returns, the channel is closed and empty, each
\* of the Concurrency workers has left its loop, none is in the callback or
\* holds a chunk, and the callback has run for every chunk sent.
C6_JoinBarrier ==
    Returned =>
        /\ closed /\ chunks = <<>>
        /\ BagCardinality(workers) = Concurrency
        /\ \A w \in BagToSet(workers) : w.pc = "done" /\ w.chunk = NoChunk
        /\ \A k \in 1..Len(sent) : Len(delivered[k]) >= 1

\* ReadFixed returned after two workers shared two or more chunks.
C6_Witness ==
    /\ Returned /\ mode = "ReadFixed" /\ Concurrency = 2
    /\ Len(sent) >= 2

\* C7: every chunk sent is in exactly one of three places: in the channel,
\* in the hands of one worker whose callback is running, or done with (the
\* callback has returned once for it); a worker about to return a buffer
\* holds a chunk whose callback has returned once; and at the return of the
\* call the callback has run exactly once for every chunk.
C7_ExactlyOnce ==
    /\ \A k \in 1..Len(sent) :
          /\ InQueue(k) + WorkersAt(k, {"work"}) + Len(delivered[k]) = 1
          /\ WorkersAt(k, {"return"}) <= Len(delivered[k])
    /\ \A w \in BagToSet(workers) : w.chunk # NoChunk => w.chunk.seq \in 1..Len(sent)
    /\ Returned => AllReceivedOnce

\* Two workers are in the callback at once, on different chunks, with a
\* third chunk waiting.
C7_Witness ==
    /\ \E k1, k2 \in 1..Len(sent) :
          k1 # k2 /\ WorkersAt(k1, {"work"}) = 1 /\ WorkersAt(k2, {"work"}) = 1
    /\ Len(chunks) >= 1

\* How many places hold buffer b: the pool, the caller, the channel, workers.
Places(b) ==
    Cardinality({i \in 1..Len(pool) : pool[i] = b})
    + (IF b \in {buf, chunk.buffer} THEN 1 ELSE 0)
    + Cardinality({i \in 1..Len(chunks) : chunks[i].buffer = b})
    + WorkersWith(b)

\* C8: every buffer is in at most one place among the pool, the caller, a
\* queued chunk and one worker; and the bytes a callback reads are the bytes
\* the caller sent in that chunk.
C8_ExclusiveOwnership ==
    /\ \A b \in BufIds : Places(b) <= 1
    /\ \A k \in 1..Len(sent) : \A i \in 1..Len(delivered[k]) : delivered[k][i] = sent[k]

\* Three buffers in three places: one back in the pool, one with the caller,
\* who is about to send it, and one with a worker whose callback is running.
C8_Witness ==
    /\ pc \in {"send", "rf_send"}
    /\ Len(pool) >= 1
    /\ \E w \in BagToSet(workers) : w.pc = "work"
    /\ Cardinality(Live) = 3

\* C9: at every point of a call the buffers outside the pool (the caller's,
\* the queued ones, the workers') number at most 2 * Concurrency, at most
\* Concurrency of them in the channel.
C9_BoundedMemory ==
    /\ Cardinality(Referenced(<<>>, chunks, buf, chunk, workers)) <= 2 * Concurrency
    /\ Len(chunks) <= Concurrency

\* C10: a call that panics on a fault of the source or on the scanner's
\* error does so with the channel closed and every worker out of its loop.
C10_FaultAfterJoin ==
    Panicked => /\ closed
                /\ \A w \in BagToSet(workers) : w.pc = "done"


\* C11: ReadFixed sends the input in stream order in chunks of exactly
\* ChunkSize bytes, the k-th being the k-th ChunkSize bytes of the input
\* however the source splits its reads; once it has returned it has sent
\* Len(input) \div ChunkSize such chunks, then one more of
\* Len(input) % ChunkSize bytes exactly when that is not zero (the end of the
\* stream with nothing read adds no chunk), and the chunks concatenate to the
\* input.
C11_FixedChunks ==
    mode = "ReadFixed" =>
        LET L == Len(input)
            full == L \div ChunkSize
            rest == L % ChunkSize
        IN  /\ \A k \in 1..Len(sent) :
                  /\ sent[k] = Slice(input, (k - 1) * ChunkSize, Min(k * ChunkSize, L))
                  /\ Len(sent[k]) > 0
                  /\ k <= full => Len(sent[k]) = ChunkSize
            /\ Returned =>
                  /\ Len(sent) = full + (IF rest # 0 THEN 1 ELSE 0)
                  /\ rest # 0 => Len(sent[Len(sent)]) = rest
                  /\ Concat(sent) = input

\* ReadFixed returned a full chunk and then a short one.
C11_Witness ==
    /\ mode = "ReadFixed" /\ Returned
    /\ Len(sent) = 2
    /\ Len(sent[1]) = ChunkSize /\ Len(sent[2]) < ChunkSize
    /\ ChunkSize >= 2


\* ------------------------------------------------- the chunks of an input
\* The end of the last occurrence of the boundary in w (0: none), found by
\* looking at every position.
BoundaryEnds(w) ==
    {e \in Len(ChunkBoundary)..Len(w) : Slice(w, e - Len(ChunkBoundary), e) = ChunkBoundary}
LastBoundaryEnd(w) ==
    IF BoundaryEnds(w) = {} THEN 0
    ELSE CHOOSE e \in BoundaryEnds(w) : \A o \in BoundaryEnds(w) : o <= e

\* The chunks of the bytes rest as section 4.2 of the specification cuts them,
\* whatever the reads of the source: of the next ChunkSize bytes, the prefix
\* that ends with their last boundary; without a boundary there, the rest as
\* the last chunk when it is at most ChunkSize bytes, and nothing more when
\* it is longer.
RECURSIVE BoundaryChunks(_)
BoundaryChunks(rest) ==
    IF rest = <<>> THEN <<>>
    ELSE LET e == LastBoundaryEnd(Slice(rest, 0, Min(ChunkSize, Len(rest))))
         IN  IF e > 0 THEN <<Slice(rest, 0, e)>> \o BoundaryChunks(Slice(rest, e, Len(rest)))
             ELSE IF Len(rest) <= ChunkSize THEN <<rest>>
             ELSE <<>>

\* The chunks of the input under ReadFixed: every ChunkSize bytes.
FixedChunks ==
    [k \in 1..((Len(input) + ChunkSize - 1) \div ChunkSize) |->
        Slice(input, (k - 1) * ChunkSize, Min(k * ChunkSize, Len(input)))]

ExpectedChunks == IF mode = "ReadFixed" THEN FixedChunks ELSE BoundaryChunks(input)

BagOf(ss) ==
    [x \in {ss[i] : i \in 1..Len(ss)} |-> Cardinality({i \in 1..Len(ss) : ss[i] = x})]

\* Every chunk a callback has received so far, as a multiset.
Callbacks == BagOf(Concat(delivered))

NoFault == scanner.err # "fault" /\ err # "fault"
Ended == Returned \/ Panicked

\* C12: a call on a source without fault ends with the same multiset of
\* chunks passed to the callback, the one that depends on the input and the
\* configuration only, whatever the scheduling of the workers and whatever
\* the sizes of the reads of the source.
C12_SameChunksEveryRun ==
    (mode # "none" /\ Ended /\ NoFault) => Callbacks = BagOf(ExpectedChunks)

\* What does hold: a call that returns has passed exactly these chunks.
C12_ReturnedSameChunks ==
    Returned => sent = ExpectedChunks /\ Callbacks = BagOf(ExpectedChunks)

\* The run the failing ones differ from: a Read that returned the chunks of
\* an input whose unterminated tail is ChunkSize bytes long.
C12_ReturningRun ==
    /\ mode = "Read" /\ Returned /\ TailLen = ChunkSize
    /\ Callbacks = BagOf(ExpectedChunks)


\* C13: also on a ParallelReader an earlier call has returned from, a call
\* goes as on a new one: it panics only on a fault of the source or an error
\* of the scanner, and when it returns it has sent the chunks of its input
\* and the callback has received each of them once.
C13_FurtherCallAsFresh ==
    /\ Panicked => err \in {"fault", "ErrTooLong"}
    /\ Returned => sent = ExpectedChunks /\ AllReceivedOnce


\* The chunks cs without the last one when that does not end with the
\* boundary.
Terminated(cs) ==
    IF Len(cs) > 0 /\ ~EndsWith(cs[Len(cs)], ChunkBoundary)
    THEN SubSeq(cs, 1, Len(cs) - 1) ELSE cs

\* C14: a Read with RequireBoundary set (and no start sequence) never sends a
\* chunk, and its callback never receives one, that does not end with the
\* boundary; when it returns it has sent the chunks a Read without
\* RequireBoundary sends, which are those of BoundaryChunks, less the last one
\* when that is the unterminated rest of the input: what it has sent is the
\* input up to a boundary, and the bytes that are missing hold no boundary.
C14_RequireBoundaryDropsTail ==
    (mode = "Read" /\ ChunkBoundaryStart = <<>>) =>
        /\ RequireBoundary =>
              \A k \in 1..Len(sent) :
                  /\ EndsWith(sent[k], ChunkBoundary)
                  /\ \A i \in 1..Len(delivered[k]) : EndsWith(delivered[k][i], ChunkBoundary)
        /\ (Returned /\ ~RequireBoundary) => sent = BoundaryChunks(input)
        /\ (Returned /\ RequireBoundary) =>
              /\ sent = Terminated(BoundaryChunks(input))
              /\ LET n == Len(Concat(sent))
                 IN  /\ Concat(sent) = Slice(input, 0, n)
                     /\ LastBoundaryEnd(Slice(input, n, Len(input))) = 0
              /\ AllReceivedOnce

\* A Read with RequireBoundary returned: the callback received a chunk and
\* the bytes after the last boundary are missing.
C14_Witness ==
    /\ mode = "Read" /\ ChunkBoundaryStart = <<>> /\ RequireBoundary /\ Returned
    /\ Len(sent) >= 1 /\ AllReceivedOnce
    /\ Len(Concat(Received)) < Len(input)
    /\ Len(BoundaryChunks(input)) = Len(sent) + 1


StartsWith(s, prefix) == Len(s) >= Len(prefix) /\ Slice(s, 0, Len(prefix)) = prefix

\* Where the first start sequence of the input begins (Len(input): nowhere).
FirstStart ==
    LET at == {i \in 0..(Len(input) - Len(ChunkBoundaryStart)) :
                  Slice(input, i, i + Len(ChunkBoundaryStart)) = ChunkBoundaryStart}
    IN  IF at = {} THEN Len(input) ELSE CHOOSE i \in at : \A j \in at : i <= j

\* Where the token the scanner has just returned ends in the input, and
\* where it begins.
TokenEnd == rd - (scanner.end - scanner.start)
TokenStart == TokenEnd - Len(scanner.token)

\* C15: with ChunkBoundaryStart set, every chunk Read sends and every chunk
\* the callback receives begins with the start sequence and ends with the
\* boundary, and every token of the scanner is a piece of the input that
\* begins at or after the first start sequence of the input and ends at or
\* before the end of its last boundary: no byte before the first start
\* sequence and none after the last complete span is delivered.
C15_OnlyBracketedSpans ==
    (mode = "Read" /\ ChunkBoundaryStart # <<>>) =>
        /\ \A k \in 1..Len(sent) :
              /\ StartsWith(sent[k], ChunkBoundaryStart) /\ EndsWith(sent[k], ChunkBoundary)
              /\ \A i \in 1..Len(delivered[k]) :
                    /\ StartsWith(delivered[k][i], ChunkBoundaryStart)
                    /\ EndsWith(delivered[k][i], ChunkBoundary)
        /\ pc = "token" =>
              /\ scanner.token = Slice(input, TokenStart, TokenEnd)
              /\ FirstStart <= TokenStart
              /\ TokenEnd <= LastBoundaryEnd(input)
        /\ Returned => AllReceivedOnce
        /\ Len(sent) > 0 => Len(Concat(sent)) <= LastBoundaryEnd(input) - FirstStart

\* A Read with a start sequence returned: the callback received one span of
\* the input, which has a byte before its first start sequence and a byte
\* after its last complete span.
C15_Witness ==
    /\ mode = "Read" /\ ChunkBoundaryStart # <<>> /\ Returned
    /\ Len(sent) = 1 /\ AllReceivedOnce
    /\ FirstStart > 0
    /\ LastBoundaryEnd(input) < Len(input)
    /\ Received[1] = Slice(input, FirstStart, LastBoundaryEnd(input))


\* The scanner of Read has room for every record of the input: the chunks of
\* the input cover it and an unterminated rest is shorter than ChunkSize.
InputFits ==
    LET cs == BoundaryChunks(input)
    IN  /\ Concat(cs) = input
        /\ Len(cs) > 0 =>
              (EndsWith(cs[Len(cs)], ChunkBoundary) \/ Len(cs[Len(cs)]) < ChunkSize)

Blocked == pc \in {"send", "rf_send"} /\ ~CanSend

\* C16 as stated: with a source without fault and under fair scheduling,
\* every call of Read and of ReadFixed returns.
C16_AlwaysReturns == <>Returned

\* C16 amended: with a source without fault and under fair scheduling every
\* call ends, by returning or by a panic; the only panic is that of a Read
\* with ErrTooLong on an input the scanner has no room for, so a ReadFixed
\* returns and a Read returns when the scanner has room for every record of
\* the input; and whenever the caller is blocked on the full channel some
\* worker has not left its loop and can step.
C16_TerminatesOrTooLong ==
    /\ <>Ended
    /\ [](Panicked => (mode = "Read" /\ err = "ErrTooLong" /\ ~InputFits))
    /\ [](Blocked => \E w \in BagToSet(workers) : w.pc # "done" /\ ENABLED Worker)

\* The caller is blocked on the full channel while every worker is busy with
\* a chunk.
C16_Witness ==
    /\ Blocked
    /\ Len(sent) >= 1
    /\ \A w \in BagToSet(workers) : w.pc \in {"work", "return"}


\* How many workers have left their loop.
WorkersDone ==
    BagCardinality([w \in {v \in BagToSet(workers) : v.pc = "done"} |-> workers[w]])

\* C17: within a call the caller closes the channel once, from the end of its
\* loop and after its last send: once the channel is closed it stays closed
\* and nothing more is sent or queued; a worker leaves its loop only in a
\* step taken with the channel closed and empty; and while a worker has left
\* its loop the channel is closed and empty and the caller is past its loop,
\* so no chunk is queued or still to be produced.
C17_CloseThenDrain ==
    /\ [][closed => (closed' /\ sent' = sent /\ Len(chunks') <= Len(chunks))]_vars
    /\ [][(closed' # closed) =>
            (~closed /\ pc \in {"scanned", "rf_close"} /\ pc' = "wait")]_vars
    /\ [][(WorkersDone' > WorkersDone) => (closed /\ chunks = <<>>)]_vars
    /\ [](WorkersDone > 0 =>
            (closed /\ chunks = <<>> /\ pc \in {"wait", "returned"}))
    /\ [](pc \in {"wait", "returned"} => closed)

\* One worker has left its loop while another is still in the callback with
\* the last chunk.
C17_Witness ==
    /\ closed /\ pc = "wait"
    /\ WorkersDone >= 1
    /\ \E w \in BagToSet(workers) : w.pc = "work" /\ w.chunk.seq = Len(sent)


\* The caller is at a Borrow; a worker is at a Return.
AtBorrow == pc \in {"token", "rf_borrow"}
AtReturn == Running /\ \E w \in BagToSet(workers) : w.pc = "return"

\* C18: Borrow and Return never block: the caller at a Borrow and a worker at
\* a Return can always step. A Borrow takes the first buffer out of a pool
\* that holds one and otherwise leaves the pool as it is and yields a buffer
\* nothing else refers to; either way the buffer is ChunkSize bytes long. A
\* Return appends its buffer to a pool that holds fewer than Concurrency
\* buffers and leaves a pool of Concurrency buffers as it is. The pool never
\* holds more than Concurrency buffers.
C18_PoolProtocol ==
    /\ [](Len(pool) <= Concurrency)
    /\ [](pc = "token" => ENABLED ReadToken)
    /\ [](pc = "rf_borrow" => ENABLED FixedBorrow)
    /\ [](AtReturn => ENABLED (\E w \in BagToSet(workers) : WorkerReturn(w)))
    /\ [][(AtBorrow /\ pc' # pc) =>
            /\ pool' = (IF Len(pool) > 0 THEN Tail(pool) ELSE pool)
            /\ buf' # NoBuf =>
                  /\ Len(mem'[buf']) = ChunkSize
                  /\ IF Len(pool) > 0 THEN buf' = Head(pool) ELSE buf' \notin Live
            /\ buf' = NoBuf => scanner.token = <<>>]_vars
    /\ [][\A w \in BagToSet(workers) :
            (w.pc = "return" /\ workers' = Step(w, [pc |-> "recv", chunk |-> NoChunk])) =>
                pool' = (IF Len(pool) < Concurrency
                         THEN Append(pool, w.chunk.buffer) ELSE pool)]_vars

\* A worker is about to return a buffer to a pool that is full.
C18_Witness ==
    /\ Len(pool) = Concurrency
    /\ \E w \in BagToSet(workers) : w.pc = "return" /\ w.chunk.buffer # NoBuf
    /\ Running


\* A round of the scanner is about to call the split function.
AtSplit == mode = "Read" /\ pc = "scan" /\ ~scanner.done
AtEOF == scanner.err # "nil"

\* C19: in a round of the scanner with the input not exhausted and a window
\* shorter than ChunkSize, no token is returned and the window keeps its
\* start (advance 0); in a round with a window of ChunkSize bytes, or with
\* the input exhausted, whose window holds the boundary, the token is the
\* window up to the end of its LAST boundary and exactly that much is
\* consumed. Hence a Read that returns on an input shorter than ChunkSize
\* that ends with the boundary has sent one chunk, the whole input, and the
\* callback has received it.
C19_GreedyLastBoundary ==
    /\ [][(AtSplit /\ CallerSteps /\ ~AtEOF /\ Len(Window(scanner)) < ChunkSize) =>
            (pc' # "token" /\ TokenEnd' = TokenEnd)]_vars
    /\ [][(AtSplit /\ CallerSteps
             /\ (AtEOF \/ Len(Window(scanner)) >= ChunkSize)
             /\ LastBoundaryEnd(Window(scanner)) > 0) =>
            LET W == Window(scanner)
                e == LastBoundaryEnd(W)
            IN  /\ pc' = "token"
                /\ scanner'.token = Slice(W, 0, e)
                /\ Window(scanner)' = Slice(W, e, Len(W))
                /\ rd' = rd]_vars
    /\ []((mode = "Read" /\ Returned /\ Len(input) < ChunkSize
             /\ EndsWith(input, ChunkBoundary)) =>
            (sent = <<input>> /\ delivered = <<(<<input>>)>>))

\* A Read returned on an input shorter than ChunkSize that ends with the
\* boundary and holds it twice: the callback received the whole input as one
\* chunk.
C19_Witness ==
    /\ mode = "Read" /\ Returned
    /\ Len(input) < ChunkSize /\ EndsWith(input, ChunkBoundary)
    /\ Cardinality(BoundaryEnds(input)) >= 2
    /\ delivered = <<(<<input>>)>>


\* How many of the workers ws are in the callback with the k-th chunk.
InCallback(ws, k) ==
    BagCardinality([w \in {v \in BagToSet(ws) : v.chunk.seq = k /\ v.pc = "work"} |-> ws[w]])

\* The k-th chunk sent has been received by a worker, which has called the
\* callback on it.
Started(k) == k <= Len(sent) /\ InQueue(k) = 0

=============================================================================
